---- MODULE Spec2Model ----
(***************************************************************************)
(* Scheduled-message delivery of the WhatsApp gateway: the poll cycle of   *)
(* MessageScheduler (services/scheduler.py), the publish path of           *)
(* RabbitMQService (services/message_queue.py) and the schedule / cancel   *)
(* handlers (routes/scheduled_messages.py) over the scheduled_messages     *)
(* table (database/models.py).                                             *)
(*                                                                         *)
(* A process is one application instance: one asyncio event loop that runs *)
(* the scheduler task and the request handlers, one module-level           *)
(* rabbitmq_service.  Neither process_due_messages nor the handlers        *)
(* suspend between their store statements, so inside one process they do   *)
(* not interleave; two processes interleave at every store statement.      *)
(*                                                                         *)
(* Beside them: the poll cycle under store errors and the while loop of    *)
(* start() (SpecFair), the consumer of 'outgoing_messages'                 *)
(* (services/message_consumer.py, SpecConsumer), the immediate send        *)
(* handlers (routes/messages.py, routes/clients.py, SpecSend) and the      *)
(* middleware stack that authenticates a request and resolves its tenant   *)
(* (middleware/auth.py, app/main.py, SpecAuth).                            *)
(*                                                                         *)
(* Further: the schedule, list and cancel handlers for several tenants     *)
(* (SpecApi), RabbitMQService.connect with its retries (SpecConnect), the  *)
(* delivery calls process_outgoing_message and send_text_message           *)
(* (SpecDelivery), a poll cycle over several due rows with store errors    *)
(* (SpecFault) and the instance with a broker that does not change state   *)
(* (SpecRows).                                                             *)
(*                                                                         *)
(* Last: RabbitMQService.send_message over a connection that may be dead   *)
(* (SpecPublish), the consumer thread that lifespan starts on              *)
(* 'outgoing_messages' (SpecQueue), check_rate_limit called by two         *)
(* instances (SpecRate) and the shutdown of the scheduler task by lifespan *)
(* (SpecStop).                                                             *)
(***************************************************************************)
EXTENDS Integers, FiniteSets, Sequences, TLC

\* ---- bounds of the model
MaxRows == 2
MaxTime == 2

\* ---- program constants
DefaultMaxAttempts == 3
NoTime == -1
NoError == "none"
NoAccountError == "No active WhatsApp account found"

Procs == {1, 2}
RowIds == 1..MaxRows
Times == 0..MaxTime

VARIABLES
    now,          \* datetime.utcnow()
    brokerUp,     \* the RabbitMQ broker accepts connections and publishes
    accountActive,\* the tenant has a WhatsAppAccount with is_active == True
    ids,          \* primary keys present in scheduled_messages
    db,           \* committed content of scheduled_messages, by primary key
    published,    \* per message_id, messages on 'outgoing_messages'
    notPublished, \* per message_id, send_message calls that returned False
    pc,           \* position of each process's scheduler task
    cycleNow,     \* `now` of the running poll cycle
    due,          \* due_messages not yet handed to process_single_message
    cur,          \* the message process_single_message is working on
    snap,         \* attempts of each row as loaded by the due query
    fresh,        \* the session has committed since the due query
    pend,         \* attribute changes of the session not yet committed
    cpc,          \* position of each process's cancel handler
    ctarget,      \* message_id of the cancel request being handled
    nap,          \* which sleep of start() the scheduler task is in
    faults,       \* store errors raised so far
    deliveries,   \* what the consumer did with each delivery, in order
    msgRows,      \* status and provider id of the messages table, by id
    isConnected,  \* rabbitmq_service.is_connected
    sends,        \* the immediate sends handled so far
    request,      \* the HTTP request last taken through the middleware
    response,     \* what the middleware stack made of it
    reply,        \* the scheduled-message request being answered
    connecting,   \* the RabbitMQService.connect call in progress
    call,         \* the delivery call last made and what came back
    publish,      \* the connection object and the last send_message call
    subscription, \* 'outgoing_messages' and the consumer thread on it
    rateLog,      \* rate_limit_logs and the check_rate_limit calls under way
    lifecycle     \* is_running and the scheduler task created by lifespan

vars == <<now, brokerUp, accountActive, ids, db, published, notPublished,
          pc, cycleNow, due, cur, snap, fresh, pend, cpc,
          ctarget, nap, faults, deliveries, msgRows, isConnected, sends,
          request, response, reply, connecting, call,
          publish, subscription, rateLog, lifecycle>>

schedVars == <<pc, cycleNow, due, cur, snap, fresh, pend, nap>>
consumerVars == <<deliveries, msgRows>>
sendVars == <<isConnected, sends>>
authVars == <<request, response>>
laterVars == <<reply, connecting, call>>
finalVars == <<publish, subscription, rateLog, lifecycle>>
sideVars == <<consumerVars, sendVars, authVars, laterVars, finalVars>>
otherVars == <<faults, sideVars>>
cancelVars == <<cpc, ctarget>>
envVars == <<now, brokerUp, accountActive>>
queueVars == <<published, notPublished>>

\* ---- tenants, recipients and contents of the scheduled messages
TenantIds == {1, 2}
Recipients == {"+15550001"}
Contents == {"hello"}

\* ---- the ScheduledMessage row (database/models.py)
BlankRow ==
    [status |-> "absent", scheduled_at |-> NoTime, attempts |-> 0,
     max_attempts |-> DefaultMaxAttempts, sent_at |-> NoTime,
     last_attempt_at |-> NoTime, error_message |-> NoError,
     tenant_id |-> 0, to_number |-> "", message |-> ""]

\* the row schedule_message adds (lines 76-85) for a tenant
NewRowFor(tenant, to, message, t) ==
    [status |-> "scheduled", scheduled_at |-> t, attempts |-> 0,
     max_attempts |-> DefaultMaxAttempts, sent_at |-> NoTime,
     last_attempt_at |-> NoTime, error_message |-> NoError,
     tenant_id |-> tenant, to_number |-> to, message |-> message]

\* the same for the one tenant of an instance that serves a single tenant
NewRow(t) == NewRowFor(1, "+15550001", "hello", t)

NoPend ==
    [row |-> 0, status |-> "none", sent_at |-> NoTime,
     error_message |-> NoError, sendResult |-> "none"]

\* variants of the due filter a slip in the query would give
EligibleUnsent(row, t) ==
    /\ row.scheduled_at <= t
    /\ row.status \notin {"sent", "cancelled", "processing"}

EligibleStrictlyPast(row, t) ==
    /\ row.scheduled_at < t
    /\ row.status \in {"scheduled", "failed"}
    /\ row.attempts < row.max_attempts

EligibleScheduledOnly(row, t) ==
    /\ row.scheduled_at <= t
    /\ row.status = "scheduled"
    /\ row.attempts < row.max_attempts

EligibleAnyStatus(row, t) ==
    /\ row.status # "absent"
    /\ row.scheduled_at <= t
    /\ row.attempts < row.max_attempts

\* ---- the filter of the due query
Eligible(row, t) ==
    /\ row.scheduled_at <= t
    /\ row.status \in {"scheduled", "failed"}
    /\ row.attempts < row.max_attempts

DueQuery(d, t) == {r \in ids : Eligible(d[r], t)}

\* ---- the UPDATE a commit issues for the pending changes of a session:
\* only the attributes the code assigned are written
Flush(d, pd) ==
    IF pd.row = 0 THEN d
    ELSE IF pd.status = "sent"
         THEN [d EXCEPT ![pd.row].status = "sent",
                        ![pd.row].sent_at = pd.sent_at]
         ELSE [d EXCEPT ![pd.row].status = pd.status,
                        ![pd.row].error_message = pd.error_message]

\* a claim that forgets the attempt timestamp
ClaimRowNoStamp(row, attempts, t) ==
    [row EXCEPT !.status = "processing",
                !.attempts = attempts + 1]

\* a claim that moves the row's scheduled time to the attempt
ClaimRowRescheduled(row, attempts, t) ==
    [row EXCEPT !.status = "processing",
                !.attempts = attempts + 1,
                !.last_attempt_at = t,
                !.scheduled_at = t]

\* ---- the claim of process_single_message
ClaimRow(row, attempts, t) ==
    [row EXCEPT !.status = "processing",
                !.attempts = attempts + 1,
                !.last_attempt_at = t]

\* an off-by-one in the cap test of the except branch
FailStatusLate(attempts, max) ==
    IF attempts > max THEN "permanently_failed" ELSE "failed"

\* ---- the status the except branch leaves
FailStatus(attempts, max) ==
    IF attempts >= max THEN "permanently_failed" ELSE "failed"

\* ---- the Message row as the send handlers create it (routes/messages.py,
\* routes/clients.py): status queued, no provider id yet
MsgIds == {1, 2}
NoWamid == "none"

QueuedMessage == [status |-> "queued", wamid |-> NoWamid, error |-> NoError]

\* no request taken yet
NoRequest ==
    [path |-> <<>>, headers |-> {}, client_id |-> "", timestamp |-> 0,
     signature |-> [key |-> "", msg |-> <<>>], body |-> ""]

NoResponse == [code |-> 0, reached |-> FALSE, tenant |-> 0, verified |-> FALSE]

\* no scheduled-message request being answered
NoInput == [fmt |-> "none", t |-> NoTime, to |-> "", message |-> ""]

NoReply ==
    [op |-> "none", tenant |-> 0, arg |-> NoInput, id |-> 0, code |-> 0,
     items |-> <<>>]

\* connect() not called yet
NoConn == [pc |-> "idle", retry_count |-> 0, attempts |-> 0, sleeps |-> 0,
           calls |-> 0, result |-> "none"]

\* no delivery call made yet
NoData == [json |-> FALSE, dict |-> FALSE, to |-> FALSE, content |-> FALSE,
           message_id |-> 0]

NoCall == [n |-> 0, fn |-> "none", data |-> NoData, outcome |-> "none",
           raised |-> FALSE, value |-> FALSE]

\* no send_message call made yet; the connection object is the one
\* __init__ opened
NoPublish == [n |-> 0, stale |-> FALSE, value |-> FALSE, raised |-> FALSE,
              sent |-> FALSE, reconnect |-> FALSE, afterFailure |-> FALSE]

\* nothing on 'outgoing_messages', services/message_queue.py not yet
\* imported, lifespan not yet run, no consumer thread
NoSubscription == [phase |-> "import", consuming |-> FALSE, sent |-> 0,
                   handled |-> 0]

\* a check_rate_limit call that is not running, and what the last one
\* returned
NoCheck == [pc |-> "idle", window |-> 0, row |-> 0, seen |-> 0,
            value |-> FALSE, cause |-> "none"]

\* no RateLimitLog row, no check under way, nothing granted
NoRateLog ==
    [rows |-> [w \in Times |-> <<>>], granted |-> [w \in Times |-> 0],
     calls |-> 0, check |-> [p \in Procs |-> NoCheck]]

\* lifespan has not created the scheduler task
NoLifecycle ==
    [task |-> "none", begun |-> FALSE, is_running |-> FALSE, stopped |-> FALSE]

Init ==
    /\ now = 0
    /\ brokerUp \in BOOLEAN
    /\ accountActive = TRUE
    /\ ids = {}
    /\ db = [r \in RowIds |-> BlankRow]
    /\ published = [r \in RowIds |-> 0]
    /\ notPublished = [r \in RowIds |-> 0]
    /\ pc = [p \in Procs |-> "sleep"]
    /\ cycleNow = [p \in Procs |-> 0]
    /\ due = [p \in Procs |-> {}]
    /\ cur = [p \in Procs |-> 0]
    /\ snap = [p \in Procs |-> [r \in RowIds |-> 0]]
    /\ fresh = [p \in Procs |-> FALSE]
    /\ pend = [p \in Procs |-> NoPend]
    /\ cpc = [p \in Procs |-> "idle"]
    /\ ctarget = [p \in Procs |-> 0]
    /\ nap = [p \in Procs |-> "interval"]
    /\ faults = 0
    /\ deliveries = <<>>
    /\ msgRows = [m \in MsgIds |-> QueuedMessage]
    /\ isConnected = TRUE
    /\ sends = <<>>
    /\ request = NoRequest
    /\ response = NoResponse
    /\ reply = NoReply
    /\ connecting = NoConn
    /\ call = NoCall
    /\ publish = NoPublish
    /\ subscription = NoSubscription
    /\ rateLog = NoRateLog
    /\ lifecycle = NoLifecycle

\* ---- environment
Tick ==
    /\ now < MaxTime
    /\ now' = now + 1
    /\ UNCHANGED <<brokerUp, accountActive, ids, db>>
    /\ UNCHANGED <<queueVars, schedVars, cancelVars>>
    /\ UNCHANGED otherVars

BrokerFail ==
    /\ brokerUp
    /\ brokerUp' = FALSE
    /\ UNCHANGED <<now, accountActive, ids, db>>
    /\ UNCHANGED <<queueVars, schedVars, cancelVars>>
    /\ UNCHANGED otherVars

BrokerRecover ==
    /\ ~brokerUp
    /\ brokerUp' = TRUE
    /\ UNCHANGED <<now, accountActive, ids, db>>
    /\ UNCHANGED <<queueVars, schedVars, cancelVars>>
    /\ UNCHANGED otherVars

SetAccountActive ==
    /\ accountActive' = ~accountActive
    /\ UNCHANGED <<now, brokerUp, ids, db>>
    /\ UNCHANGED <<queueVars, schedVars, cancelVars>>
    /\ UNCHANGED otherVars

\* the event loop of process p is free to run a handler
LoopFree(p) == pc[p] = "sleep" /\ cpc[p] = "idle"

\* ---- POST /schedule
ScheduleMessage(p, t) ==
    /\ LoopFree(p)
    /\ Cardinality(ids) < MaxRows
    /\ t > now
    /\ accountActive
    /\ LET id == Cardinality(ids) + 1 IN
        /\ ids' = ids \cup {id}
        /\ db' = [db EXCEPT ![id] = NewRow(t)]
    /\ UNCHANGED <<envVars, queueVars, schedVars, cancelVars>>
    /\ UNCHANGED otherVars

\* ---- RabbitMQService.send_message: ensure_connection reconnects when
\* needed, the publish goes through iff the broker is reachable, and every
\* exception is swallowed and turned into the return value False
SendMessage(broker) == broker

\* ---- lines 72-108 of process_single_message: what the session holds,
\* uncommitted, when the call returns
DispatchOutcome(r, row, hasAccount, sendOk, t) ==
    IF ~hasAccount
    THEN [row |-> r, status |-> FailStatus(row.attempts, row.max_attempts),
          sent_at |-> NoTime, error_message |-> NoAccountError,
          sendResult |-> "none"]
    ELSE [row |-> r, status |-> "sent", sent_at |-> t,
          error_message |-> NoError,
          sendResult |-> IF sendOk THEN "true" ELSE "false"]

\* ---- process_due_messages, lines 36-47: open a session, read the clock,
\* run the due query
ProcessDueMessages(p) ==
    /\ LoopFree(p)
    /\ pc' = [pc EXCEPT ![p] = "loop"]
    /\ cycleNow' = [cycleNow EXCEPT ![p] = now]
    /\ due' = [due EXCEPT ![p] = DueQuery(db, now)]
    /\ snap' = [snap EXCEPT ![p] = [r \in RowIds |-> db[r].attempts]]
    /\ fresh' = [fresh EXCEPT ![p] = FALSE]
    /\ UNCHANGED <<cur, pend, nap, ids, db>>
    /\ UNCHANGED <<envVars, queueVars, cancelVars>>
    /\ UNCHANGED otherVars

\* ---- process_single_message, lines 65-70: the claim and its commit.  The
\* commit also writes what the previous message of the cycle left pending.
\* The first message still holds the attributes the due query loaded; a
\* commit expires the session's objects, so later messages reload theirs.
Claim(p, r) ==
    /\ pc[p] = "loop"
    /\ r \in due[p]
    /\ LET flushed == Flush(db, pend[p])
           attempts == IF fresh[p] THEN flushed[r].attempts ELSE snap[p][r]
       IN db' = [flushed EXCEPT ![r] = ClaimRow(flushed[r], attempts, cycleNow[p])]
    /\ pend' = [pend EXCEPT ![p] = NoPend]
    /\ fresh' = [fresh EXCEPT ![p] = TRUE]
    /\ cur' = [cur EXCEPT ![p] = r]
    /\ due' = [due EXCEPT ![p] = due[p] \ {r}]
    /\ pc' = [pc EXCEPT ![p] = "dispatch"]
    /\ UNCHANGED <<cycleNow, snap, nap, ids>>
    /\ UNCHANGED <<envVars, queueVars, cancelVars>>
    /\ UNCHANGED otherVars

\* ---- process_single_message, lines 72-108: account lookup, publish,
\* status update (left to the next commit of the session)
Dispatch(p) ==
    /\ pc[p] = "dispatch"
    /\ LET r == cur[p]
           sendOk == SendMessage(brokerUp)
       IN /\ pend' = [pend EXCEPT ![p] =
                 DispatchOutcome(r, db[r], accountActive, sendOk, cycleNow[p])]
          /\ IF accountActive
             THEN /\ published' = [published EXCEPT ![r] =
                         IF sendOk THEN @ + 1 ELSE @]
                  /\ notPublished' = [notPublished EXCEPT ![r] =
                         IF sendOk THEN @ ELSE @ + 1]
             ELSE UNCHANGED queueVars
    /\ cur' = [cur EXCEPT ![p] = 0]
    /\ pc' = [pc EXCEPT ![p] = "loop"]
    /\ UNCHANGED <<cycleNow, due, snap, fresh, nap, ids, db>>
    /\ UNCHANGED <<envVars, cancelVars>>
    /\ UNCHANGED otherVars

\* ---- process_due_messages, lines 55-61: the final commit, close, and back
\* to the sleep of start()
CycleCommit(p) ==
    /\ pc[p] = "loop"
    /\ due[p] = {}
    /\ db' = Flush(db, pend[p])
    /\ pend' = [pend EXCEPT ![p] = NoPend]
    /\ pc' = [pc EXCEPT ![p] = "sleep"]
    /\ cycleNow' = [cycleNow EXCEPT ![p] = 0]
    /\ snap' = [snap EXCEPT ![p] = [r \in RowIds |-> 0]]
    /\ fresh' = [fresh EXCEPT ![p] = FALSE]
    /\ nap' = [nap EXCEPT ![p] = "interval"]
    /\ UNCHANGED <<due, cur, ids>>
    /\ UNCHANGED <<envVars, queueVars, cancelVars>>
    /\ UNCHANGED otherVars

\* ---- DELETE /scheduled/{message_id}, lines 160-169: load the row; an
\* unknown id raises 404, a row that is not scheduled raises 400
CancelAllowedUnsent(status) == status \notin {"sent", "cancelled"}

CancelAllowed(status) == status = "scheduled"

CancelRead(p, id) ==
    /\ LoopFree(p)
    /\ ctarget' = [ctarget EXCEPT ![p] = id]
    /\ cpc' = [cpc EXCEPT ![p] =
           IF id \notin ids THEN "raise404"
           ELSE IF ~CancelAllowed(db[id].status) THEN "raise400"
           ELSE "write"]
    /\ UNCHANGED <<ids, db>>
    /\ UNCHANGED <<envVars, queueVars, schedVars>>
    /\ UNCHANGED otherVars

\* ---- DELETE /scheduled/{message_id}, lines 171-176: UPDATE ... SET status,
\* commit, 200
CancelRow(row) == [row EXCEPT !.status = "cancelled"]

CancelWrite(p) ==
    /\ cpc[p] = "write"
    /\ db' = [db EXCEPT ![ctarget[p]] = CancelRow(@)]
    /\ cpc' = [cpc EXCEPT ![p] = "idle"]
    /\ ctarget' = [ctarget EXCEPT ![p] = 0]
    /\ UNCHANGED ids
    /\ UNCHANGED <<envVars, queueVars, schedVars>>
    /\ UNCHANGED otherVars

\* ---- DELETE /scheduled/{message_id}, lines 178-185: the HTTPException is
\* re-raised and the session closed without a write
CancelRaise(p) ==
    /\ cpc[p] \in {"raise400", "raise404"}
    /\ cpc' = [cpc EXCEPT ![p] = "idle"]
    /\ ctarget' = [ctarget EXCEPT ![p] = 0]
    /\ UNCHANGED <<ids, db>>
    /\ UNCHANGED <<envVars, queueVars, schedVars>>
    /\ UNCHANGED otherVars

\* ---- GET /scheduled, lines 120-139: one item per row of the tenant, with
\* the committed status
ListItem(id, row) ==
    [id |-> id, scheduled_at |-> row.scheduled_at, status |-> row.status,
     attempts |-> row.attempts, sent_at |-> row.sent_at]

GetScheduledMessages(d) == {ListItem(r, d[r]) : r \in ids}

Env == Tick \/ BrokerFail \/ BrokerRecover \/ SetAccountActive

\* the scheduler task and the cancel handler of process p
Work(p) ==
    \/ ProcessDueMessages(p)
    \/ \E r \in RowIds : Claim(p, r)
    \/ Dispatch(p)
    \/ CycleCommit(p)
    \/ \E id \in RowIds : CancelRead(p, id)
    \/ CancelWrite(p)
    \/ CancelRaise(p)

Step(p) == Work(p) \/ \E t \in Times : ScheduleMessage(p, t)

\* one application instance
Next == Env \/ Step(1)
Spec == Init /\ [][Next]_vars

\* one application instance whose broker stays as it was at start: up for
\* the whole behaviour, or down for the whole behaviour
NextRows == Tick \/ SetAccountActive \/ Step(1)
SpecRows == Init /\ [][NextRows]_vars

\* two application instances on the same store and broker, contending for
\* the first MaxRowsConc rows
MaxRowsConc == 1

ScheduleConc(p, t) == Cardinality(ids) < MaxRowsConc /\ ScheduleMessage(p, t)

NextConc ==
    \/ Env
    \/ \E p \in Procs : Work(p)
    \/ \E p \in Procs, t \in Times : ScheduleConc(p, t)
SpecConc == Init /\ [][NextConc]_vars

\* ---- store errors.  A store statement of the poll cycle (the due query,
\* the commit of a claim, the reload and account query, the final commit)
\* may raise; MaxFaults bounds how many do.
MaxFaults == 1
MaxRowsFault == 1
StoreErrorText == "store error"

\* start() without its except clause: the task ends with the exception
StartUncaught(escaped) ==
    IF escaped THEN [pc |-> "dead", nap |-> "interval"]
    ELSE [pc |-> "sleep", nap |-> "interval"]

\* ---- start(), lines 21-27: after process_due_messages returns the loop
\* sleeps check_interval; an exception that escaped it is logged and the
\* loop sleeps 30 seconds; either way the while loop goes round again
Start(escaped) ==
    [pc |-> "sleep", nap |-> IF escaped THEN "backoff" ELSE "interval"]

\* ---- process_due_messages, lines 57-61, reached from a store statement
\* that raised: the session is rolled back, so nothing it held pending is
\* written, the rest of due_messages is not processed, and the cycle is
\* over.  The exception is swallowed there unless rollback or close raise
\* too (escaped), which takes it to the except clause of start().
CycleAbort(p, escaped) ==
    /\ faults < MaxFaults
    /\ LoopFree(p) \/ pc[p] \in {"loop", "dispatch"}
    /\ faults' = faults + 1
    /\ pend' = [pend EXCEPT ![p] = NoPend]
    /\ due' = [due EXCEPT ![p] = {}]
    /\ cur' = [cur EXCEPT ![p] = 0]
    /\ cycleNow' = [cycleNow EXCEPT ![p] = 0]
    /\ snap' = [snap EXCEPT ![p] = [r \in RowIds |-> 0]]
    /\ fresh' = [fresh EXCEPT ![p] = FALSE]
    /\ pc' = [pc EXCEPT ![p] = Start(escaped).pc]
    /\ nap' = [nap EXCEPT ![p] = Start(escaped).nap]
    /\ UNCHANGED <<ids, db>>
    /\ UNCHANGED <<envVars, queueVars, cancelVars, sideVars>>

\* ---- process_single_message, lines 72-76 and 99-108: the account lookup
\* raises a store error, the except branch marks the row failed (or
\* permanently_failed) with the error text, nothing is published
StoreErrorOutcome(r, row) ==
    [row |-> r, status |-> FailStatus(row.attempts, row.max_attempts),
     sent_at |-> NoTime, error_message |-> StoreErrorText,
     sendResult |-> "none"]

DispatchStoreError(p) ==
    /\ faults < MaxFaults
    /\ pc[p] = "dispatch"
    /\ faults' = faults + 1
    /\ pend' = [pend EXCEPT ![p] = StoreErrorOutcome(cur[p], db[cur[p]])]
    /\ cur' = [cur EXCEPT ![p] = 0]
    /\ pc' = [pc EXCEPT ![p] = "loop"]
    /\ UNCHANGED <<cycleNow, due, snap, fresh, nap, ids, db>>
    /\ UNCHANGED <<envVars, queueVars, cancelVars, sideVars>>

ScheduleFault(p, t) == Cardinality(ids) < MaxRowsFault /\ ScheduleMessage(p, t)

\* the steps of the scheduler task of process p when no statement raises
Cycle(p) ==
    \/ ProcessDueMessages(p)
    \/ \E r \in RowIds : Claim(p, r)
    \/ Dispatch(p)
    \/ CycleCommit(p)

\* one application instance whose store may fail and that receives no
\* cancel request.  The clock advances and the scheduler task, once
\* created by lifespan, keeps being run by the event loop.
NextFair ==
    \/ Env
    \/ Cycle(1)
    \/ \E t \in Times : ScheduleFault(1, t)
    \/ \E escaped \in BOOLEAN : CycleAbort(1, escaped)
    \/ DispatchStoreError(1)

SpecFair ==
    /\ Init /\ [][NextFair]_vars
    /\ WF_vars(Tick)
    /\ WF_vars(Cycle(1))

\* the same instance with several rows due in one cycle, without the
\* fairness conditions
NextFault ==
    \/ Env
    \/ Cycle(1)
    \/ \E t \in Times : ScheduleMessage(1, t)
    \/ \E escaped \in BOOLEAN : CycleAbort(1, escaped)
    \/ DispatchStoreError(1)

SpecFault == Init /\ [][NextFault]_vars

\* ---- the consumer of 'outgoing_messages' (services/message_consumer.py)
MaxDeliveries == 2

\* a delivery body: does json.loads accept it, is the value a dict, does it
\* carry a recipient ('to' or 'to_number'), a content ('message' or
\* 'content'), and which stored message its message_id names
Bodies ==
    {b \in [json : BOOLEAN, dict : BOOLEAN, to : BOOLEAN, content : BOOLEAN,
            message_id : MsgIds \cup {0}] :
        /\ b.dict => b.json /\ b.message_id \in MsgIds
        /\ ~b.dict => ~b.to /\ ~b.content /\ b.message_id = 0}

\* what requests.post to the provider does: status 200, another status, or
\* an exception
ApiResults == {"200", "4xx", "raise"}

Ack == [op |-> "basic_ack", requeue |-> FALSE]
Nack(requeue) == [op |-> "basic_nack", requeue |-> requeue]

\* ---- process_outgoing_message: True iff the provider answered 200.  A
\* value without .get, a missing field, another status and any exception
\* give False.  No statement of it reads or writes the store.
ProcessOutgoingMessage(data, api) ==
    IF ~data.dict THEN FALSE
    ELSE IF ~data.to \/ ~data.content THEN FALSE
    ELSE api = "200"

\* the provider is called only for a dict with recipient and content
ApiCalled(body) == body.json /\ body.dict /\ body.to /\ body.content

\* a consumer that asks the broker to requeue what it could not deliver
ProcessConsumerMessageRequeue(body, api) ==
    IF ~body.json THEN [calls |-> <<Nack(FALSE)>>, raised |-> FALSE]
    ELSE IF ProcessOutgoingMessage(body, api)
         THEN [calls |-> <<Ack>>, raised |-> FALSE]
         ELSE [calls |-> <<Nack(TRUE)>>, raised |-> FALSE]

\* a consumer without the except clause around json.loads
ProcessConsumerMessageNoCatch(body, api) ==
    IF ~body.json THEN [calls |-> <<>>, raised |-> TRUE]
    ELSE IF ProcessOutgoingMessage(body, api)
         THEN [calls |-> <<Ack>>, raised |-> FALSE]
         ELSE [calls |-> <<Nack(FALSE)>>, raised |-> FALSE]

\* ---- process_consumer_message: the channel calls it makes for one
\* delivery and whether an exception leaves it
ProcessConsumerMessage(body, api) ==
    IF ~body.json THEN [calls |-> <<Nack(FALSE)>>, raised |-> FALSE]
    ELSE IF ProcessOutgoingMessage(body, api)
         THEN [calls |-> <<Ack>>, raised |-> FALSE]
         ELSE [calls |-> <<Nack(FALSE)>>, raised |-> FALSE]

\* start_consuming runs the callback for each delivery until an exception
\* leaves the callback
ConsumerRunning == \A i \in 1..Len(deliveries) : ~deliveries[i].raised

\* ---- one delivery taken from 'outgoing_messages'
Consume(body, api) ==
    /\ Len(deliveries) < MaxDeliveries
    /\ ConsumerRunning
    /\ LET done == ProcessConsumerMessage(body, api) IN
        deliveries' = Append(deliveries,
            [body |-> body,
             api |-> IF ApiCalled(body) THEN api ELSE "none",
             calls |-> done.calls, raised |-> done.raised])
    /\ UNCHANGED msgRows
    /\ UNCHANGED <<envVars, ids, db, queueVars, schedVars, cancelVars>>
    /\ UNCHANGED <<faults, sendVars, authVars, laterVars, finalVars>>

NextConsumer == \E body \in Bodies, api \in ApiResults : Consume(body, api)
SpecConsumer == Init /\ [][NextConsumer]_vars

\* ---- immediate send (routes/messages.py, routes/clients.py)
MaxSends == 3

\* RabbitMQService.is_connected after send_message: connect() sets it when
\* the broker answers, the except branch of send_message clears it
ConnectedAfterSend(broker) == broker

\* ---- whatsapp_service.send_text_message: a bool, True iff the provider
\* answered 200
SendTextMessage(api) == api = "200"

\* ---- routes/messages.py send_message, lines 44-79: the row is committed
\* with status queued, send_message is called and its return value dropped,
\* the response says queued
MessagesSendMessage(broker) ==
    [route |-> "messages", status |-> "queued", returned |-> "queued",
     enqueued |-> SendMessage(broker), direct |-> FALSE]

\* ---- routes/clients.py send_message, lines 82-139: the row is committed
\* with status queued; the publish is tried only when is_connected, and a
\* True from it returns queued.  Otherwise send_text_message is awaited and
\* its result, a bool, is subscripted with "success": that raises TypeError
\* before the status is assigned, so the request ends in an error response
\* and the row keeps the committed status.
ClientsSendMessage(conn, broker, api) ==
    IF conn /\ SendMessage(broker)
    THEN [route |-> "clients", status |-> "queued", returned |-> "queued",
          enqueued |-> TRUE, direct |-> FALSE]
    ELSE LET result == SendTextMessage(api) IN
         IF result \in BOOLEAN
         THEN [route |-> "clients", status |-> "queued",
               returned |-> "error", enqueued |-> FALSE, direct |-> TRUE]
         ELSE [route |-> "clients",
               status |-> IF result.success THEN "sent" ELSE "failed",
               returned |-> IF result.success THEN "sent" ELSE "failed",
               enqueued |-> FALSE, direct |-> TRUE]

SendViaMessages ==
    /\ Len(sends) < MaxSends
    /\ accountActive
    /\ sends' = Append(sends, MessagesSendMessage(brokerUp))
    /\ isConnected' = ConnectedAfterSend(brokerUp)
    /\ UNCHANGED <<envVars, ids, db, queueVars, schedVars, cancelVars>>
    /\ UNCHANGED <<faults, consumerVars, authVars, laterVars, finalVars>>

SendViaClients(api) ==
    /\ Len(sends) < MaxSends
    /\ sends' = Append(sends, ClientsSendMessage(isConnected, brokerUp, api))
    /\ isConnected' = IF isConnected THEN ConnectedAfterSend(brokerUp)
                      ELSE isConnected
    /\ UNCHANGED <<envVars, ids, db, queueVars, schedVars, cancelVars>>
    /\ UNCHANGED <<faults, consumerVars, authVars, laterVars, finalVars>>

NextSend ==
    \/ BrokerFail
    \/ BrokerRecover
    \/ SendViaMessages
    \/ \E api \in ApiResults : SendViaClients(api)

SpecSend == Init /\ [][NextSend]_vars

\* ---- authentication and tenant resolution (middleware/auth.py,
\* app/main.py).  A path is the sequence of its "/" and its segments.
PathSend == <<"/", "api", "/", "v1", "/", "messages", "/", "send">>
PathSchedule == <<"/", "api", "/", "v1", "/", "scheduled", "/", "schedule">>
PathList == <<"/", "api", "/", "v1", "/", "scheduled", "/", "scheduled">>
PathCancel ==
    <<"/", "api", "/", "v1", "/", "scheduled", "/", "scheduled", "/", "1">>
PathDocs == <<"/", "docs">>
PathHealth == <<"/", "health">>

Paths == {PathSend, PathSchedule, PathList, PathCancel, PathDocs, PathHealth}

\* public_paths of HMACAuth.dispatch
PublicPaths ==
    {<<"/", "docs">>, <<"/", "redoc">>, <<"/", "openapi.json">>,
     <<"/", "webhook">>,
     <<"/", "api", "/", "v1", "/", "tenants", "/", "register">>,
     <<"/", "health">>, <<"/">>, <<"/", "test-db">>,
     <<"/", "tenants", "/">>, <<"/", "api", "/", "v1", "/", "me">>}

\* swagger_paths of inject_tenant_for_swagger
SwaggerPaths ==
    {<<"/", "docs">>, <<"/", "redoc">>, <<"/", "openapi.json">>,
     <<"/", "__debug">>}

ScheduledPrefix == <<"/", "api", "/", "v1", "/", "scheduled", "/">>
MessagesPrefix == <<"/", "api", "/", "v1", "/", "messages", "/">>

\* str.startswith
StartsWith(s, prefix) ==
    /\ Len(prefix) <= Len(s)
    /\ SubSeq(s, 1, Len(prefix)) = prefix

\* ---- the tenants table, in the order db.query(Tenant).first() sees it
TenantRows ==
    <<[id |-> 1, api_key |-> "keyA", hmac_secret |-> "secretA",
       is_active |-> TRUE],
      [id |-> 2, api_key |-> "keyB", hmac_secret |-> "secretB",
       is_active |-> TRUE],
      [id |-> 3, api_key |-> "keyC", hmac_secret |-> "secretC",
       is_active |-> FALSE]>>

\* the headers verify_hmac reads
AuthHeaders == {"X-Client-ID", "X-Signature", "X-Timestamp"}

ClientIds == {"keyA", "keyB", "keyC", "keyX"}
Secrets == {"secretA", "secretB", "secretC"}
AuthWindow == 300
Timestamps == {-301, 0, 300}
RequestBodies == {"", "body"}

\* hmac.new(key, msg, sha256).hexdigest(): equal digests iff equal key and
\* equal message; the message is f"{timestamp}.{body_str}"
Hmac(key, timestamp, body) == [key |-> key, msg |-> <<timestamp, ".", body>>]

Signatures ==
    {Hmac(k, t, b) : k \in Secrets, t \in Timestamps, b \in RequestBodies}

\* a request: its path, which of the headers it carries and their values,
\* and its raw body
Requests ==
    [path : Paths, headers : SUBSET AuthHeaders, client_id : ClientIds,
     timestamp : Timestamps, signature : Signatures, body : RequestBodies]

Abs(x) == IF x < 0 THEN -x ELSE x

\* ---- HMACAuth.verify_hmac: the tenant the request authenticates as, or
\* 0 with the status of the rejection
VerifyHmac(req, t) ==
    IF req.headers # AuthHeaders
    THEN [tenant |-> 0, code |-> 401]
    ELSE IF Abs(t - req.timestamp) > AuthWindow
    THEN [tenant |-> 0, code |-> 401]
    ELSE LET found == {i \in 1..Len(TenantRows) :
                          /\ TenantRows[i].api_key = req.client_id
                          /\ TenantRows[i].is_active}
         IN IF found = {} THEN [tenant |-> 0, code |-> 401]
            ELSE LET row == TenantRows[CHOOSE i \in found : TRUE] IN
                 IF Hmac(row.hmac_secret, req.timestamp, req.body)
                        # req.signature
                 THEN [tenant |-> 0, code |-> 401]
                 ELSE [tenant |-> row.id, code |-> 200]

\* ---- HMACAuth.dispatch, line 24: the test that skips verification
IsPublicPath(path) ==
    \E pub \in PublicPaths : path = pub \/ StartsWith(path, pub)

\* ---- HMACAuth.dispatch: does the request go on to call_next, with which
\* request.state.tenant (0: not set), and was the signature verified
HMACAuthDispatch(req, t) ==
    IF IsPublicPath(req.path)
    THEN [pass |-> TRUE, tenant |-> 0, verified |-> FALSE, code |-> 200]
    ELSE LET v == VerifyHmac(req, t) IN
         [pass |-> v.tenant # 0, tenant |-> v.tenant,
          verified |-> v.tenant # 0, code |-> v.code]

\* ---- inject_tenant_for_swagger: request.state.tenant after it
InjectTenant(path, stateTenant) ==
    IF \/ \E sw \in SwaggerPaths : StartsWith(path, sw)
       \/ StartsWith(path, ScheduledPrefix)
    THEN IF Len(TenantRows) > 0 THEN TenantRows[1].id ELSE stateTenant
    ELSE stateTenant

\* ---- the route handler: the schedule, list and cancel handlers act under
\* get_tenant_from_request (401 when request.state.tenant is not set); the
\* send handler reads request.state.tenant directly
Handler(path, stateTenant, verified) ==
    IF stateTenant = 0
    THEN [code |-> IF StartsWith(path, ScheduledPrefix) THEN 401 ELSE 500,
          reached |-> TRUE, tenant |-> 0, verified |-> verified]
    ELSE [code |-> 200, reached |-> TRUE, tenant |-> stateTenant,
          verified |-> verified]

\* ---- the middleware stack of app: HMACAuth (added last, so outermost),
\* then inject_tenant_for_swagger, then the route
Pipeline(req, t) ==
    LET a == HMACAuthDispatch(req, t) IN
    IF ~a.pass
    THEN [code |-> a.code, reached |-> FALSE, tenant |-> 0,
          verified |-> FALSE]
    ELSE Handler(req.path, InjectTenant(req.path, a.tenant), a.verified)

\* one request through the stack; the stack keeps nothing from one request
\* to the next, so a behaviour takes a single request
HandleRequest(req) ==
    /\ request = NoRequest
    /\ request' = req
    /\ response' = Pipeline(req, now)
    /\ UNCHANGED <<envVars, ids, db, queueVars, schedVars, cancelVars>>
    /\ UNCHANGED <<faults, consumerVars, sendVars, laterVars, finalVars>>

NextAuth ==
    \E req \in IF request = NoRequest THEN Requests ELSE {} :
        HandleRequest(req)
SpecAuth == Init /\ [][NextAuth]_vars

\* ---- the scheduled-message API for several tenants
\* (routes/scheduled_messages.py).  The tenant of a request is what
\* get_tenant_from_request returns for it.
MaxRowsApi == 2

\* the scheduled_at parameter: a string fromisoformat refuses, an ISO time
\* without offset, or an ISO time with an explicit offset ("Z", "+00:00")
ScheduleInputs ==
    [fmt : {"naive", "offset", "malformed"}, t : Times,
     to : Recipients, message : Contents]

\* ---- line 58: datetime.fromisoformat(scheduled_at.replace('Z', '+00:00')):
\* ValueError for a malformed string, else a datetime that is offset-aware
\* iff the string carried an offset
FromIsoFormat(inp) ==
    IF inp.fmt = "malformed"
    THEN [raised |-> TRUE, aware |-> FALSE, t |-> NoTime]
    ELSE [raised |-> FALSE, aware |-> inp.fmt = "offset", t |-> inp.t]

\* a validation that lets the present instant through
ScheduleOutcomeNotPast(inp, clock, hasAccount) ==
    LET parsed == FromIsoFormat(inp) IN
    IF parsed.raised THEN 400
    ELSE IF parsed.aware THEN 500
    ELSE IF parsed.t < clock THEN 400
    ELSE IF ~hasAccount THEN 400
    ELSE 200

\* ---- schedule_message, lines 56-104: the status of the response; the row
\* is added iff it is 200.  Comparing an offset-aware datetime with
\* datetime.utcnow(), which is naive, raises TypeError, which the handler
\* turns into 500.
ScheduleOutcome(inp, clock, hasAccount) ==
    LET parsed == FromIsoFormat(inp) IN
    IF parsed.raised THEN 400
    ELSE IF parsed.aware THEN 500
    ELSE IF parsed.t <= clock THEN 400
    ELSE IF ~hasAccount THEN 400
    ELSE 200

\* the event loop is free and no response is on its way out
ApiFree == reply = NoReply /\ LoopFree(1)

ScheduleRequest(tenant, inp) ==
    /\ ApiFree
    /\ LET code == ScheduleOutcome(inp, now, accountActive)
           id == Cardinality(ids) + 1
       IN /\ code = 200 => Cardinality(ids) < MaxRowsApi
          /\ IF code = 200
             THEN /\ ids' = ids \cup {id}
                  /\ db' = [db EXCEPT ![id] =
                         NewRowFor(tenant, inp.to, inp.message, inp.t)]
             ELSE UNCHANGED <<ids, db>>
          /\ reply' = [op |-> "schedule", tenant |-> tenant, arg |-> inp,
                       id |-> IF code = 200 THEN id ELSE 0,
                       code |-> code, items |-> <<>>]
    /\ UNCHANGED <<envVars, queueVars, schedVars, cancelVars>>
    /\ UNCHANGED <<faults, consumerVars, sendVars, authVars, connecting, call>>
    /\ UNCHANGED finalVars

\* a list query without the tenant filter
OwnIdsAnyTenant(tenant, d) == ids

\* ---- get_scheduled_messages, lines 120-122: the rows of the tenant
OwnIds(tenant, d) == {r \in ids : d[r].tenant_id = tenant}

\* the orders ORDER BY scheduled_at ASC may return a set of rows in
Orderings(S, d) ==
    {f \in [1..Cardinality(S) -> S] :
        /\ \A i, j \in 1..Cardinality(S) : i # j => f[i] # f[j]
        /\ \A i, j \in 1..Cardinality(S) :
               i < j => d[f[i]].scheduled_at <= d[f[j]].scheduled_at}

\* ---- get_scheduled_messages, lines 120-139: the lists it may return
ListFor(tenant, d) ==
    {[i \in 1..Cardinality(OwnIds(tenant, d)) |-> ListItem(f[i], d[f[i]])] :
        f \in Orderings(OwnIds(tenant, d), d)}

ListRequest(tenant) ==
    /\ ApiFree
    /\ \E items \in ListFor(tenant, db) :
           reply' = [op |-> "list", tenant |-> tenant, arg |-> NoInput,
                     id |-> 0, code |-> 200, items |-> items]
    /\ UNCHANGED <<ids, db>>
    /\ UNCHANGED <<envVars, queueVars, schedVars, cancelVars>>
    /\ UNCHANGED <<faults, consumerVars, sendVars, authVars, connecting, call>>
    /\ UNCHANGED finalVars

\* a cancel lookup by id alone
CancelFindAnyTenant(tenant, id, d) == id \in ids

\* ---- cancel_scheduled_message, lines 160-163: the lookup by id and tenant
CancelFind(tenant, id, d) == id \in ids /\ d[id].tenant_id = tenant

\* ---- cancel_scheduled_message, lines 160-185, run without interruption
CancelRequest(tenant, id) ==
    /\ ApiFree
    /\ LET code == IF ~CancelFind(tenant, id, db) THEN 404
                   ELSE IF ~CancelAllowed(db[id].status) THEN 400
                   ELSE 200
       IN /\ db' = IF code = 200 THEN [db EXCEPT ![id] = CancelRow(@)]
                   ELSE db
          /\ reply' = [op |-> "cancel", tenant |-> tenant, arg |-> NoInput,
                       id |-> id, code |-> code, items |-> <<>>]
    /\ UNCHANGED ids
    /\ UNCHANGED <<envVars, queueVars, schedVars, cancelVars>>
    /\ UNCHANGED <<faults, consumerVars, sendVars, authVars, connecting, call>>
    /\ UNCHANGED finalVars

\* the response leaves
ReplySent ==
    /\ reply # NoReply
    /\ reply' = NoReply
    /\ UNCHANGED <<envVars, ids, db, queueVars, schedVars, cancelVars>>
    /\ UNCHANGED <<faults, consumerVars, sendVars, authVars, connecting, call>>
    /\ UNCHANGED finalVars

\* the clock and the accounts between two requests
ApiTick == reply = NoReply /\ Tick
ApiSetAccountActive == reply = NoReply /\ SetAccountActive

NextApi ==
    \/ ApiTick
    \/ ApiSetAccountActive
    \/ \E tenant \in TenantIds, inp \in ScheduleInputs :
           ScheduleRequest(tenant, inp)
    \/ \E tenant \in TenantIds : ListRequest(tenant)
    \/ \E tenant \in TenantIds, id \in RowIds : CancelRequest(tenant, id)
    \/ ReplySent

SpecApi == Init /\ [][NextApi]_vars

\* ---- RabbitMQService.connect (services/message_queue.py lines 18-51), one
\* call at a time; attempts and sleeps count what the call in progress, or
\* the last one, has done
MaxConnectCalls == 4
MaxRetries == 3

connectFrame ==
    <<ids, db, queueVars, schedVars, cancelVars, faults, consumerVars,
      authVars, reply, call, sends, finalVars>>

\* connect() is called: __init__ line 16, ensure_connection line 56,
\* start_message_consumer line 117
ConnectCall ==
    /\ connecting.pc = "idle"
    /\ connecting.calls < MaxConnectCalls
    /\ connecting' = [pc |-> "try", retry_count |-> 0, attempts |-> 0,
                      sleeps |-> 0, calls |-> connecting.calls + 1,
                      result |-> "none"]
    /\ UNCHANGED <<envVars, isConnected, connectFrame>>

\* lines 20-51: one pass of the try block.  With the broker reachable the
\* connection is opened and is_connected set; else the except branch
\* retries while retry_count < max_retries and gives up after that
ConnectAttempt ==
    /\ connecting.pc = "try"
    /\ IF brokerUp
       THEN /\ isConnected' = TRUE
            /\ connecting' = [connecting EXCEPT !.pc = "idle",
                                 !.attempts = @ + 1, !.result = "connected"]
       ELSE IF connecting.retry_count < MaxRetries
       THEN /\ connecting' = [connecting EXCEPT !.pc = "sleep",
                                 !.attempts = @ + 1]
            /\ UNCHANGED isConnected
       ELSE /\ isConnected' = FALSE
            /\ connecting' = [connecting EXCEPT !.pc = "idle",
                                 !.attempts = @ + 1, !.result = "gave_up"]
    /\ UNCHANGED <<envVars, connectFrame>>

\* lines 47-48: time.sleep(retry_delay), then connect(retry_count + 1)
ConnectSleep ==
    /\ connecting.pc = "sleep"
    /\ connecting' = [connecting EXCEPT !.pc = "try",
                         !.retry_count = @ + 1, !.sleeps = @ + 1]
    /\ UNCHANGED <<envVars, isConnected, connectFrame>>

NextConnect ==
    \/ ConnectCall
    \/ ConnectAttempt
    \/ ConnectSleep
    \/ BrokerFail
    \/ BrokerRecover

SpecConnect == Init /\ [][NextConnect]_vars

\* ---- the delivery call: process_outgoing_message
\* (services/message_consumer.py) and WhatsAppService.send_text_message
\* (services/whatsapp_service.py).  The result of a block of code is whether
\* an exception left it and, if none did, the value it returned.
MaxCalls == 2

\* what requests.post and the provider do: 200 with the message id in a JSON
\* body, 200 with an empty 'messages' list, 200 with a body that is not
\* JSON, an error status, no connection, no answer in time
ProviderResults ==
    {"200", "200 empty", "200 text", "400", "401", "404", "500",
     "connection error", "timeout"}

Returned(v) == [raised |-> FALSE, value |-> v]
Raised == [raised |-> TRUE, value |-> FALSE]

\* requests.post, then the status test and the reading of the message id:
\* message_consumer.py lines 59-80, whatsapp_service.py lines 101-119
PostAndRead(api) ==
    IF api \in {"connection error", "timeout"} THEN Raised
    ELSE IF api = "200 text" THEN Raised
    ELSE IF api = "200 empty" THEN Raised
    ELSE Returned(api = "200")

\* a handler that logs the exception and lets it go on
ExceptReraise(result) == result

\* ---- except Exception: log, return False (message_consumer.py lines
\* 82-84, whatsapp_service.py lines 121-124)
ExceptReturnFalse(result) ==
    IF result.raised THEN Returned(FALSE) ELSE result

\* ---- process_outgoing_message, lines 16-80: the body of its try block.
\* A value without .get raises AttributeError at line 17.
ProcessOutgoingMessageBody(data, api) ==
    IF ~data.dict THEN Raised
    ELSE IF ~data.to \/ ~data.content THEN Returned(FALSE)
    ELSE PostAndRead(api)

\* ---- process_outgoing_message, lines 12-84
ProcessOutgoingMessageCall(data, api) ==
    ExceptReturnFalse(ProcessOutgoingMessageBody(data, api))

\* ---- send_text_message, lines 69-124: the payload and headers are built
\* from strings, the request and what follows run inside the try block
SendTextMessageCall(api) == ExceptReturnFalse(PostAndRead(api))

\* the values json.loads may hand to process_outgoing_message
ParsedBodies == {b \in Bodies : b.json}

deliveryFrame ==
    <<envVars, ids, db, queueVars, schedVars, cancelVars, faults,
      consumerVars, sendVars, authVars, reply, connecting, finalVars>>

CallProcessOutgoingMessage(data, api) ==
    /\ call.n < MaxCalls
    /\ LET result == ProcessOutgoingMessageCall(data, api) IN
          call' = [n |-> call.n + 1, fn |-> "process_outgoing_message",
                   data |-> data, outcome |-> api,
                   raised |-> result.raised, value |-> result.value]
    /\ UNCHANGED deliveryFrame

CallSendTextMessage(api) ==
    /\ call.n < MaxCalls
    /\ LET result == SendTextMessageCall(api) IN
          call' = [n |-> call.n + 1, fn |-> "send_text_message",
                   data |-> NoData, outcome |-> api,
                   raised |-> result.raised, value |-> result.value]
    /\ UNCHANGED deliveryFrame

NextDelivery ==
    \/ \E data \in ParsedBodies, api \in ProviderResults :
           CallProcessOutgoingMessage(data, api)
    \/ \E api \in ProviderResults : CallSendTextMessage(api)

SpecDelivery == Init /\ [][NextDelivery]_vars

\* ---- RabbitMQService.send_message with the connection it uses
\* (services/message_queue.py lines 53-79).  publish.stale: the broker has
\* been away since self.connection was opened, so that connection is dead
\* even when the broker is reachable again.
MaxPublishes == 6

\* ---- ensure_connection, lines 53-56, with connect(): a new connection is
\* opened when is_connected is False or the old one is seen to be closed
\* (closedSeen: is_closed is True only once pika has noticed the loss);
\* connect leaves is_connected True iff the broker answered
EnsureConnection(conn, stale, broker, closedSeen) ==
    IF ~conn \/ ((stale \/ ~broker) /\ closedSeen)
    THEN [conn |-> broker, stale |-> IF broker THEN FALSE ELSE stale,
          reconnect |-> TRUE]
    ELSE [conn |-> conn, stale |-> stale, reconnect |-> FALSE]

\* ---- lines 63-74: basic_publish on self.channel raises unless the channel
\* belongs to a live connection; after it, return True
BasicPublish(broker, stale) ==
    IF broker /\ ~stale
    THEN [raised |-> FALSE, value |-> TRUE, sent |-> TRUE]
    ELSE [raised |-> TRUE, value |-> FALSE, sent |-> FALSE]

\* an except clause that returns False without touching is_connected
SendMessageExceptKeepsFlag(result, conn) ==
    IF result.raised
    THEN [raised |-> FALSE, value |-> FALSE, sent |-> result.sent,
          conn |-> conn]
    ELSE [raised |-> FALSE, value |-> result.value, sent |-> result.sent,
          conn |-> conn]

\* ---- lines 76-79: except Exception: log, is_connected = False, return
\* False
SendMessageExcept(result, conn) ==
    IF result.raised
    THEN [raised |-> FALSE, value |-> FALSE, sent |-> result.sent,
          conn |-> FALSE]
    ELSE [raised |-> FALSE, value |-> result.value, sent |-> result.sent,
          conn |-> conn]

\* ---- send_message, lines 58-79
SendMessageCall(conn, stale, broker, closedSeen) ==
    LET ensured == EnsureConnection(conn, stale, broker, closedSeen)
        result == SendMessageExcept(BasicPublish(broker, ensured.stale),
                                    ensured.conn)
    IN [raised |-> result.raised, value |-> result.value,
        sent |-> result.sent, conn |-> result.conn,
        stale |-> ensured.stale, reconnect |-> ensured.reconnect]

publishFrame ==
    <<now, accountActive, ids, db, queueVars, schedVars, cancelVars, faults,
      consumerVars, sends, authVars, laterVars, subscription, rateLog,
      lifecycle>>

PublishSend(closedSeen) ==
    /\ publish.n < MaxPublishes
    /\ LET r == SendMessageCall(isConnected, publish.stale, brokerUp,
                                closedSeen)
       IN /\ publish' = [n |-> publish.n + 1, stale |-> r.stale,
                         value |-> r.value, raised |-> r.raised,
                         sent |-> r.sent, reconnect |-> r.reconnect,
                         afterFailure |-> publish.n > 0 /\ ~publish.value]
          /\ isConnected' = r.conn
    /\ UNCHANGED <<brokerUp, publishFrame>>

\* the broker goes away
PublishBrokerFail ==
    /\ brokerUp
    /\ brokerUp' = FALSE
    /\ UNCHANGED <<publish, isConnected, publishFrame>>

\* the broker comes back; connections opened before the outage stay dead
PublishBrokerRecover ==
    /\ ~brokerUp
    /\ brokerUp' = TRUE
    /\ publish' = [publish EXCEPT !.stale = TRUE]
    /\ UNCHANGED <<isConnected, publishFrame>>

NextPublish ==
    \/ \E closedSeen \in BOOLEAN : PublishSend(closedSeen)
    \/ PublishBrokerFail
    \/ PublishBrokerRecover

SpecPublish == Init /\ [][NextPublish]_vars

\* ---- startup and shutdown of the scheduler task (app/main.py lifespan,
\* MessageScheduler.start and stop).  While lifecycle.task is "running" the
\* position of start() is pc[1]: "sleep" is the asyncio.sleep of the loop,
\* the only place where the task is suspended.
stopFrame ==
    <<now, brokerUp, accountActive, ids, db, queueVars, cancelVars, faults,
      consumerVars, sendVars, authVars, laterVars, publish, subscription,
      rateLog>>

\* ---- lifespan, lines 41-47: asyncio.create_task(message_scheduler.start())
LifespanCreateTask ==
    /\ lifecycle.task = "none"
    /\ lifecycle' = [lifecycle EXCEPT !.task = "created"]
    /\ UNCHANGED <<schedVars, stopFrame>>

\* ---- start(), lines 16-21: the task runs for the first time, sets
\* is_running and enters the while loop
StartBegin ==
    /\ lifecycle.task = "created"
    /\ lifecycle' = [lifecycle EXCEPT !.task = "running", !.begun = TRUE,
                                      !.is_running = TRUE]
    /\ UNCHANGED <<schedVars, stopFrame>>

\* ---- start(), lines 21-24: while self.is_running, one more poll cycle
StartCycle ==
    /\ lifecycle.task = "running"
    /\ pc[1] = "sleep" => lifecycle.is_running
    /\ Cycle(1)

\* ---- start(), line 21: the sleep is over, is_running is False, the loop
\* ends and start() returns
StartReturn ==
    /\ lifecycle.task = "running"
    /\ pc[1] = "sleep"
    /\ ~lifecycle.is_running
    /\ lifecycle' = [lifecycle EXCEPT !.task = "returned"]
    /\ UNCHANGED <<schedVars, stopFrame>>

\* a shutdown that only writes its log lines
ShutdownLogsOnly(lc) == [lc EXCEPT !.stopped = TRUE]

\* ---- lifespan, lines 54-58, with stop(), lines 29-32: is_running is set
\* False and the task is cancelled
Shutdown(lc) ==
    [lc EXCEPT !.stopped = TRUE, !.is_running = FALSE, !.task = "cancelling"]

\* the shutdown code runs on the event loop, so the scheduler task is
\* suspended in its sleep or has not run yet
LifespanShutdown ==
    /\ lifecycle.task \in {"created", "running"}
    /\ ~lifecycle.stopped
    /\ pc[1] = "sleep"
    /\ lifecycle' = Shutdown(lifecycle)
    /\ UNCHANGED <<schedVars, stopFrame>>

\* ---- lines 59-62: await scheduler_task.  CancelledError is raised at the
\* task's sleep, or ends a task that has not run yet.  Since Python 3.8 it
\* is not an Exception and the task ends with it; before, the except
\* clause of start() at lines 25-27 catches it (caught), sleeps 30 and goes
\* back to the while test.
StartCancelled(caught) ==
    /\ lifecycle.task = "cancelling"
    /\ IF caught /\ lifecycle.begun
       THEN /\ lifecycle' = [lifecycle EXCEPT !.task = "running"]
            /\ nap' = [nap EXCEPT ![1] = "backoff"]
       ELSE /\ lifecycle' = [lifecycle EXCEPT !.task = "cancelled"]
            /\ UNCHANGED nap
    /\ UNCHANGED <<pc, cycleNow, due, cur, snap, fresh, pend, stopFrame>>

StopTick == Tick
StopSetAccountActive == SetAccountActive

NextStop ==
    \/ StopTick
    \/ StopSetAccountActive
    \/ \E t \in Times : ScheduleFault(1, t)
    \/ LifespanCreateTask
    \/ StartBegin
    \/ StartCycle
    \/ StartReturn
    \/ LifespanShutdown
    \/ \E caught \in BOOLEAN : StartCancelled(caught)

\* the event loop keeps running the task it created
SpecStop ==
    /\ Init /\ [][NextStop]_vars
    /\ WF_vars(StartBegin)
    /\ WF_vars(StartCycle)
    /\ WF_vars(StartReturn)
    /\ WF_vars(\E caught \in BOOLEAN : StartCancelled(caught))

\* ---- check_rate_limit (middleware/rate_limiter.py) for one tenant, called
\* by the send handler of each application instance.  A window is one
\* minute of the clock; rateLog.rows[w] holds the request_count of every
\* RateLimitLog row of window w, rateLog.granted[w] counts the calls of
\* that window that returned True.
MaxChecks == 4
RateLimitPerMinute == 2

rateFrame ==
    <<brokerUp, accountActive, ids, db, queueVars, schedVars, cancelVars,
      faults, consumerVars, sendVars, authVars, laterVars, publish,
      subscription, lifecycle>>

\* the call returns: the session is closed and the result handed back
CheckReturn(p, value, cause) ==
    [NoCheck EXCEPT !.value = value, !.cause = cause]

\* ---- lines 9-35: tenant lookup, window, lookup of the window's row; the
\* row found (row > 0) or a new one with request_count 0 (row = 0) is in
\* the session.  An unknown tenant returns False at line 13.
CheckRead(p, known) ==
    /\ rateLog.check[p].pc = "idle"
    /\ rateLog.calls < MaxChecks
    /\ LET rows == rateLog.rows[now] IN
       \E i \in IF rows = <<>> THEN {0} ELSE 1..Len(rows) :
          rateLog' = [rateLog EXCEPT
              !.calls = @ + 1,
              !.check[p] =
                  IF ~known THEN CheckReturn(p, FALSE, "unknown tenant")
                  ELSE [pc |-> "loaded", window |-> now, row |-> i,
                        seen |-> IF i = 0 THEN 0 ELSE rows[i],
                        value |-> FALSE, cause |-> "none"]]
    /\ UNCHANGED <<now, rateFrame>>

\* ---- lines 38-46: the limit test on the loaded count, then
\* request_count = loaded count + 1 and commit (INSERT of the new row or
\* UPDATE of the loaded one), return True
CheckWrite(p) ==
    /\ rateLog.check[p].pc = "loaded"
    /\ LET c == rateLog.check[p]
           w == c.window
       IN IF c.seen >= RateLimitPerMinute
          THEN rateLog' = [rateLog EXCEPT
                   !.check[p] = CheckReturn(p, FALSE, "limit")]
          ELSE rateLog' = [rateLog EXCEPT
                   !.rows[w] = IF c.row = 0 THEN Append(@, c.seen + 1)
                               ELSE [@ EXCEPT ![c.row] = c.seen + 1],
                   !.granted[w] = @ + 1,
                   !.check[p] = CheckReturn(p, TRUE, "granted")]
    /\ UNCHANGED <<now, rateFrame>>

\* ---- lines 48-51: a store statement raised; rollback, return False
CheckStoreError(p) ==
    /\ rateLog.check[p].pc = "loaded"
    /\ rateLog' = [rateLog EXCEPT
           !.check[p] = CheckReturn(p, FALSE, "store error")]
    /\ UNCHANGED <<now, rateFrame>>

\* the next minute begins
RateTick ==
    /\ now < MaxTime
    /\ now' = now + 1
    /\ UNCHANGED <<rateLog, rateFrame>>

NextRate ==
    \/ \E p \in Procs, known \in BOOLEAN : CheckRead(p, known)
    \/ \E p \in Procs : CheckWrite(p)
    \/ \E p \in Procs : CheckStoreError(p)
    \/ RateTick

SpecRate == Init /\ [][NextRate]_vars

\* ---- the consumer of 'outgoing_messages' from application startup on
\* (app/main.py lifespan, services/message_consumer.py
\* start_message_consumers).  subscription.sent counts the messages
\* published to the queue, subscription.handled those the callback has
\* acked or nacked; the queue is durable and keeps the others.
MaxQueued == 2

queueFrame ==
    <<now, accountActive, ids, db, queueVars, schedVars, cancelVars, faults,
      consumerVars, sends, authVars, laterVars, rateLog, lifecycle>>

\* ---- message_queue.py line 93 with __init__, lines 8-16: the module-level
\* instance connects when the module is imported
ServiceInit ==
    /\ subscription.phase = "import"
    /\ isConnected' = brokerUp
    /\ subscription' = [subscription EXCEPT !.phase = "constructed"]
    /\ UNCHANGED <<brokerUp, publish, queueFrame>>

\* ---- start_message_consumers, lines 112-151, in the thread lifespan
\* starts: the consumer is registered on rabbitmq_service.channel when
\* basic_consume goes through
StartMessageConsumers(conn, broker) == conn /\ broker

\* ---- lifespan, lines 33-39: the consumer thread is started only when the
\* service is connected at that moment
LifespanStart ==
    /\ subscription.phase = "constructed"
    /\ subscription' = [subscription EXCEPT
           !.phase = "serving",
           !.consuming = IF isConnected
                         THEN StartMessageConsumers(isConnected, brokerUp)
                         ELSE FALSE]
    /\ UNCHANGED <<brokerUp, isConnected, publish, queueFrame>>

\* a handler or the scheduler calls send_message('outgoing_messages', ...)
QueuePublish(closedSeen) ==
    /\ subscription.phase = "serving"
    /\ subscription.sent < MaxQueued
    /\ publish.n < MaxPublishes
    /\ LET r == SendMessageCall(isConnected, publish.stale, brokerUp,
                                closedSeen)
       IN /\ publish' = [n |-> publish.n + 1, stale |-> r.stale,
                         value |-> r.value, raised |-> r.raised,
                         sent |-> r.sent, reconnect |-> r.reconnect,
                         afterFailure |-> publish.n > 0 /\ ~publish.value]
          /\ isConnected' = r.conn
          /\ subscription' = [subscription EXCEPT
                 !.sent = IF r.sent THEN @ + 1 ELSE @]
    /\ UNCHANGED <<brokerUp, queueFrame>>

\* ---- start_consuming, line 147: the broker hands the next message to
\* process_consumer_message, which acks or nacks it
QueueDeliver ==
    /\ subscription.consuming
    /\ brokerUp
    /\ subscription.handled < subscription.sent
    /\ subscription' = [subscription EXCEPT !.handled = @ + 1]
    /\ UNCHANGED <<brokerUp, isConnected, publish, queueFrame>>

\* the broker goes away: start_consuming raises on the lost connection,
\* the except clause at lines 149-151 logs it and the thread ends
QueueBrokerFail ==
    /\ brokerUp
    /\ brokerUp' = FALSE
    /\ subscription' = [subscription EXCEPT !.consuming = FALSE]
    /\ UNCHANGED <<isConnected, publish, queueFrame>>

QueueBrokerRecover ==
    /\ ~brokerUp
    /\ brokerUp' = TRUE
    /\ publish' = [publish EXCEPT !.stale = TRUE]
    /\ UNCHANGED <<isConnected, subscription, queueFrame>>

NextQueue ==
    \/ ServiceInit
    \/ LifespanStart
    \/ \E closedSeen \in BOOLEAN : QueuePublish(closedSeen)
    \/ QueueDeliver
    \/ QueueBrokerFail
    \/ QueueBrokerRecover

\* the import and lifespan run, and a registered consumer is served by the
\* broker whenever a message waits
SpecQueue ==
    /\ Init /\ [][NextQueue]_vars
    /\ WF_vars(ServiceInit)
    /\ WF_vars(LifespanStart)
    /\ WF_vars(QueueDeliver)

TypeOK ==
    /\ now \in Times
    /\ ids \subseteq RowIds
    /\ \A r \in RowIds : db[r].attempts \in Nat

\* ---- steps of the scheduler task and of the session, as seen in the state
QueryStep(p) == pc[p] = "sleep" /\ pc'[p] = "loop"
ClaimStep(p) == pc[p] = "loop" /\ pc'[p] = "dispatch"
DispatchStep(p) == pc[p] = "dispatch" /\ pc'[p] = "loop"
CycleEnd(p) == pc[p] = "loop" /\ pc'[p] = "sleep"
CommitStep(p) == pend[p].row # 0 /\ pend'[p].row = 0

\* C1: two scheduler instances polling the same due row never both dispatch
\* it: no message_id is published to 'outgoing_messages' more than once.
C1_NoDoubleDispatch ==
    \A r \in RowIds : published[r] <= 1

\* C2: when send_message did not publish, the attempt ends failed (or
\* permanently_failed) with error_message set, and a row marked sent is on
\* the queue.
C2_PublishFailureFails ==
    /\ \A p \in Procs :
        pend[p].sendResult = "false" =>
            /\ pend[p].status \in {"failed", "permanently_failed"}
            /\ pend[p].error_message # NoError
    /\ \A r \in ids : db[r].status = "sent" => published[r] >= 1

\* C3: every stored row has attempts <= max_attempts.
C3_AttemptsBounded ==
    \A r \in ids : db[r].attempts <= db[r].max_attempts

C3_Witness ==
    \E r \in ids : db[r].attempts = db[r].max_attempts

\* C4: a row in cancelled status was never claimed nor handed to the queue
\* (the cancel write never replaces processing, sent or failed).
C4_CancelRaceClean ==
    \A r \in ids :
        db[r].status = "cancelled" =>
            db[r].attempts = 0 /\ published[r] = 0 /\ notPublished[r] = 0

\* C5: a cancel request on a scheduled row is accepted and its write turns
\* exactly the status into cancelled; on a row in any other status it raises
\* and the table is left as it was.
C5_Cancel ==
    [][\A p \in Procs :
        /\ (cpc[p] = "idle" /\ cpc'[p] # "idle") =>
              /\ db' = db
              /\ \A id \in ids :
                    ctarget'[p] = id =>
                        /\ db[id].status = "scheduled" => cpc'[p] = "write"
                        /\ db[id].status # "scheduled" => cpc'[p] = "raise400"
        /\ (cpc[p] = "write" /\ cpc'[p] = "idle") =>
              /\ db[ctarget[p]].status = "scheduled"
              /\ db' = [db EXCEPT ![ctarget[p]].status = "cancelled"]
        /\ (cpc[p] = "raise400" /\ cpc'[p] = "idle") =>
              /\ db[ctarget[p]].status # "scheduled"
              /\ db' = db
      ]_vars

C5_Witness ==
    /\ cpc[1] = "raise400"
    /\ db[ctarget[1]].status = "cancelled"

\* C6: a claim is never made on a row whose scheduled_at is later than the
\* cycle's now, and a cycle leaves no scheduled row whose scheduled_at equals
\* its now unclaimed.
C6_DueTime ==
    [][\A p \in Procs :
        /\ ClaimStep(p) =>
              /\ db[cur'[p]].scheduled_at <= cycleNow[p]
              /\ db'[cur'[p]].last_attempt_at >= db'[cur'[p]].scheduled_at
        /\ CycleEnd(p) =>
              \A r \in ids :
                  db'[r].scheduled_at = cycleNow[p] => db'[r].status # "scheduled"
      ]_vars

C6_Witness ==
    \E r \in ids :
        /\ db[r].status = "processing"
        /\ db[r].last_attempt_at = db[r].scheduled_at

C9_ThreeFailedPublishes ==
    \A r \in ids :
        (pc[1] = "sleep" /\ db[r].attempts >= 1
            /\ notPublished[r] = db[r].attempts) =>
                db[r].status =
                    IF db[r].attempts = DefaultMaxAttempts
                    THEN "permanently_failed" ELSE "failed"

\* C10 as stated: the claim of a scheduled row with attempts 0 commits
\* processing, attempts 1 and last_attempt_at = now; with the broker
\* reachable the dispatch marks it sent with sent_at = now, and the commit
\* stores that leaving attempts at 1.
C10_AsStated ==
    [][\A p \in Procs :
        (DispatchStep(p) /\ brokerUp) =>
            /\ pend'[p].status = "sent"
            /\ pend'[p].sent_at = cycleNow[p]
      ]_vars

\* C10 amended: the same, provided the tenant has an active WhatsApp account
\* when the row is dispatched.
C10_SuccessfulCycle ==
    [][\A p \in Procs :
        /\ (ClaimStep(p) /\ db[cur'[p]].status = "scheduled"
                /\ db[cur'[p]].attempts = 0) =>
              db'[cur'[p]] = [db[cur'[p]] EXCEPT !.status = "processing",
                                                 !.attempts = 1,
                                                 !.last_attempt_at = cycleNow[p]]
        /\ (DispatchStep(p) /\ brokerUp /\ accountActive) =>
              /\ pend'[p].row = cur[p]
              /\ pend'[p].status = "sent"
              /\ pend'[p].sent_at = cycleNow[p]
              /\ published'[cur[p]] = published[cur[p]] + 1
              /\ db' = db
        /\ (CommitStep(p) /\ pend[p].status = "sent") =>
              /\ db'[pend[p].row].status = "sent"
              /\ db'[pend[p].row].sent_at = pend[p].sent_at
              /\ db'[pend[p].row].attempts = db[pend[p].row].attempts
              /\ db'[pend[p].row].last_attempt_at = pend[p].sent_at
      ]_vars

C10_Witness ==
    /\ pc[1] = "sleep"
    /\ \E r \in ids :
        /\ db[r].status = "sent"
        /\ db[r].attempts = 1
        /\ published[r] = 1
        /\ db[r].sent_at = db[r].last_attempt_at
        /\ db[r].sent_at >= db[r].scheduled_at

\* C11: a row cancelled while scheduled is never touched again by one
\* instance's poll cycles: no step changes any of its fields, publishes it or
\* puts it among the due messages, whatever its scheduled_at, and the list
\* operation reports it as cancelled.
C11_CancelledUntouched ==
    [][\A r \in ids :
          db[r].status = "cancelled" =>
              /\ db'[r] = db[r]
              /\ published'[r] = published[r]
              /\ notPublished'[r] = notPublished[r]
              /\ r \notin due'[1]
              /\ cur'[1] # r
              /\ \E it \in GetScheduledMessages(db') :
                     it.id = r /\ it.status = "cancelled"]_vars

\* a poll cycle that started after the cancel, at or after the row's time
C11_Witness ==
    \E r \in ids :
        /\ db[r].status = "cancelled"
        /\ pc[1] = "loop"
        /\ db[r].scheduled_at <= cycleNow[1]
        /\ published[r] = 0

\* the status changes the life cycle of a row allows, creation included
StatusEdges ==
    {<<"absent", "scheduled">>,
     <<"scheduled", "processing">>, <<"scheduled", "cancelled">>,
     <<"processing", "sent">>, <<"processing", "failed">>,
     <<"processing", "permanently_failed">>,
     <<"failed", "processing">>}

\* C12: the status of a row only moves along scheduled -> processing,
\* processing -> sent | failed | permanently_failed, failed -> processing and
\* scheduled -> cancelled, whatever the interleaving of poll cycles and
\* cancel requests; so sent, cancelled and permanently_failed never change.
C12_StatusEdgesOnly ==
    [][\A r \in RowIds :
          db'[r].status # db[r].status =>
              <<db[r].status, db'[r].status>> \in StatusEdges]_vars

\* C13: with poll cycles that keep occurring and no cancel, every row
\* eventually reaches sent or permanently_failed; none stays forever in
\* scheduled, failed or processing.
C13_EventuallySettled ==
    \A r \in RowIds :
        (r \in ids) ~> (db[r].status \in {"sent", "permanently_failed"})

\* C17: no store or queue error raised during a poll cycle ends the
\* scheduler loop: poll cycles go on being run for ever.
C17_LoopGoesOn == []<>(pc[1] = "loop")

\* a poll cycle running after one that failed and took the 30 second sleep
C17_Witness ==
    /\ faults > 0
    /\ nap[1] = "backoff"
    /\ pc[1] = "loop"

\* C14: every delivery gets exactly one channel call: an ack when the
\* provider call succeeded, otherwise a nack with requeue = False; nothing is
\* ever requeued.
C14_AckOrNack ==
    \A i \in 1..Len(deliveries) :
        LET d == deliveries[i] IN
        /\ Len(d.calls) = 1
        /\ d.api = "200" => d.calls[1].op = "basic_ack"
        /\ d.api # "200" => d.calls[1].op = "basic_nack"
        /\ ~d.calls[1].requeue

\* one delivery acked and one nacked
C14_Witness ==
    /\ \E i \in 1..Len(deliveries) :
           deliveries[i].api = "200" /\ deliveries[i].calls = <<Ack>>
    /\ \E i \in 1..Len(deliveries) :
           deliveries[i].api = "4xx" /\ deliveries[i].calls = <<Nack(FALSE)>>

\* C15: once the consumer has processed a message for which it called the
\* provider, the stored row named by message_id reflects the outcome: sent
\* with the provider message id on success, failed with the error detail on
\* failure.
C15_RowReflectsOutcome ==
    [][Len(deliveries') > Len(deliveries) =>
          LET d == deliveries'[Len(deliveries')]
              m == d.body.message_id
          IN d.api # "none" =>
                 IF d.api = "200"
                 THEN /\ msgRows'[m].status = "sent"
                      /\ msgRows'[m].wamid # NoWamid
                 ELSE /\ msgRows'[m].status = "failed"
                      /\ msgRows'[m].error # NoError]_vars

\* a poison message: not JSON, or without recipient or content
Malformed(body) == ~body.json \/ ~body.dict \/ ~body.to \/ ~body.content

\* C16: a payload that is not JSON, or lacks recipient or content, is nacked
\* without requeue, no exception leaves process_consumer_message, and the
\* consumer goes on with later messages.
C16_PoisonDropped ==
    \A i \in 1..Len(deliveries) :
        Malformed(deliveries[i].body) =>
            /\ deliveries[i].calls = <<Nack(FALSE)>>
            /\ ~deliveries[i].raised
            /\ ConsumerRunning
            /\ Len(deliveries) < MaxDeliveries => ENABLED NextConsumer

\* a payload that is not JSON, then a later message delivered and acked
C16_Witness ==
    \E i, j \in 1..Len(deliveries) :
        /\ i < j
        /\ ~deliveries[i].body.json
        /\ deliveries[i].calls = <<Nack(FALSE)>>
        /\ deliveries[j].calls = <<Ack>>

\* C18: an immediate send answers queued only when the message was
\* enqueued; when it was not, a direct delivery was attempted and the row
\* ended sent or failed, so no row stays queued without being on the queue.
C18_QueuedMeansEnqueued ==
    \A i \in 1..Len(sends) :
        LET s == sends[i] IN
        /\ s.returned = "queued" => s.enqueued
        /\ s.status = "queued" => s.enqueued
        /\ ~s.enqueued => s.direct /\ s.status \in {"sent", "failed"}

\* what the property asks of an accepted request: the three headers, a
\* timestamp within the window, an active tenant with that client id, and
\* the signature that tenant's secret gives over "timestamp.rawBody"
Authentic(req, t) ==
    /\ req.headers = AuthHeaders
    /\ Abs(t - req.timestamp) <= AuthWindow
    /\ \E i \in 1..Len(TenantRows) :
           /\ TenantRows[i].is_active
           /\ TenantRows[i].api_key = req.client_id
           /\ req.signature =
                  Hmac(TenantRows[i].hmac_secret, req.timestamp, req.body)

TenantScoped(path) ==
    StartsWith(path, MessagesPrefix) \/ StartsWith(path, ScheduledPrefix)

\* the id of the tenant whose api_key the request carries, 0 if none
ClientTenant(req) ==
    IF \E i \in 1..Len(TenantRows) : TenantRows[i].api_key = req.client_id
    THEN TenantRows[CHOOSE i \in 1..Len(TenantRows) :
                        TenantRows[i].api_key = req.client_id].id
    ELSE 0

\* C19: a request to a tenant-scoped path reaches its handler only if
\* HMACAuth accepted it: headers present, timestamp within 300 of now, an
\* active tenant with that client id, and a matching signature.
C19_HandlerOnlyIfAuthentic ==
    response.reached /\ TenantScoped(request.path) =>
        Authentic(request, now)

\* C20: the schedule, list and cancel handlers act under the tenant
\* authenticated from the request's client id and signature: a request
\* authenticated as one tenant never acts on the rows of another.
C20_ActsAsAuthenticated ==
    /\ response.reached
    /\ response.tenant # 0
    /\ StartsWith(request.path, ScheduledPrefix)
    /\ Authentic(request, now)
    => response.tenant = ClientTenant(request)

\* a request of the given kind is answered in this step
Answered(op) == reply.op = "none" /\ reply'.op = op

\* C21: schedule_message rejects a scheduled time that is not strictly
\* later than now (equal or past) and a malformed timestamp, and a rejected
\* request creates no row.
C21_RejectsNotFuture ==
    [][Answered("schedule") =>
          /\ (reply'.arg.fmt = "malformed" \/ reply'.arg.t <= now)
                 => reply'.code # 200
          /\ reply'.code # 200 => ids' = ids /\ db' = db]_vars

\* a request for exactly the present instant, refused, with rows in place
C21_Witness ==
    /\ reply.op = "schedule"
    /\ reply.arg.fmt = "naive"
    /\ reply.arg.t = now
    /\ reply.code = 400
    /\ ids # {}

\* C22: a schedule request with a strictly future time creates exactly one
\* row with status scheduled, attempts 0 and no sent_at, and a list by the
\* same tenant right after shows it as scheduled with attempts 0.
C22_FutureIsScheduled ==
    [][/\ Answered("schedule")
       /\ reply'.arg.fmt # "malformed"
       /\ reply'.arg.t > now
       /\ accountActive
       => /\ reply'.code = 200
          /\ \E id \in RowIds \ ids :
                 /\ ids' = ids \cup {id}
                 /\ db'[id].status = "scheduled"
                 /\ db'[id].attempts = 0
                 /\ db'[id].sent_at = NoTime
                 /\ \A r \in RowIds \ {id} : db'[r] = db[r]
                 /\ \A items \in ListFor(reply.tenant, db)' :
                        \E i \in 1..Len(items) :
                            /\ items[i].id = id
                            /\ items[i].status = "scheduled"
                            /\ items[i].attempts = 0]_vars

\* C23: get_scheduled_messages returns exactly the rows of the request's
\* tenant, whatever their status and none of another tenant, each once,
\* ordered by scheduled_at ascending, and changes no row.
C23_ListOwnRowsInOrder ==
    [][Answered("list") =>
          LET items == reply'.items IN
          /\ ids' = ids /\ db' = db
          /\ {items[i].id : i \in 1..Len(items)}
                 = {r \in ids : db[r].tenant_id = reply'.tenant}
          /\ \A i, j \in 1..Len(items) : i # j => items[i].id # items[j].id
          /\ \A i \in 1..Len(items) :
                 /\ items[i].status = db[items[i].id].status
                 /\ items[i].scheduled_at = db[items[i].id].scheduled_at
          /\ \A i, j \in 1..Len(items) :
                 i < j => items[i].scheduled_at <= items[j].scheduled_at]_vars

\* a list of two rows, the later-created one first, one of them cancelled
C23_Witness ==
    /\ reply.op = "list"
    /\ Len(reply.items) = 2
    /\ reply.items[1].id = 2
    /\ reply.items[1].scheduled_at < reply.items[2].scheduled_at
    /\ reply.items[2].status = "cancelled"

\* C24: a cancel naming a row of another tenant, or an unknown id, fails
\* and leaves every row as it was, even when the row is scheduled.
C24_CancelForeignFails ==
    [][/\ Answered("cancel")
       /\ reply'.id \notin ids \/ db[reply'.id].tenant_id # reply'.tenant
       => /\ reply'.code # 200
          /\ ids' = ids /\ db' = db]_vars

\* a cancel refused for a scheduled row that belongs to the other tenant
C24_Witness ==
    /\ reply.op = "cancel"
    /\ reply.id \in ids
    /\ db[reply.id].tenant_id # reply.tenant
    /\ db[reply.id].status = "scheduled"
    /\ reply.code = 404

\* C25: RabbitMQService.connect makes at most max_retries (3) connection
\* attempts per call, with one retry_delay sleep between two attempts, and
\* a call that gave up has left is_connected False.
C25_AtMostMaxRetriesAttempts ==
    /\ connecting.attempts <= MaxRetries
    /\ connecting.pc = "try" => connecting.sleeps = connecting.attempts
    /\ connecting.pc # "try" /\ connecting.attempts > 0
          => connecting.sleeps = connecting.attempts - 1
    /\ connecting.result = "gave_up" => ~isConnected

\* C26: every due row found by the query of a poll cycle is attempted
\* (claimed, then dispatched or failed) before the loop goes to sleep: when
\* the cycle ends, the only row that may be left is the one whose own claim
\* failed, and a failure on one row leaves no other row unattempted.
C26_AllDueAttempted ==
    [][pc[1] # "sleep" /\ pc'[1] = "sleep"
          => \/ due[1] = {}
             \/ cur[1] = 0 /\ Cardinality(due[1]) = 1]_vars

\* C27: a poll cycle in which a store statement raised is followed by the
\* error backoff of 30, and a cycle without exception by check_interval.
C27_BackoffAfterError ==
    [][pc'[1] = "sleep" /\ (pc[1] # "sleep" \/ faults' # faults)
          => nap'[1] = IF faults' # faults THEN "backoff" ELSE "interval"]_vars

\* C28: scheduled_at, tenant_id, to_number and message of a row never
\* change after its creation, whatever claims, dispatches or cancels it,
\* and a row once created is never deleted.
C28_ScheduledAtImmutable ==
    [][\A r \in ids :
          /\ r \in ids'
          /\ db'[r].status # "absent"
          /\ db'[r].scheduled_at = db[r].scheduled_at
          /\ db'[r].tenant_id = db[r].tenant_id
          /\ db'[r].to_number = db[r].to_number
          /\ db'[r].message = db[r].message]_vars

\* one row attempted later than it was scheduled for and failed, another
\* one cancelled
C28_Witness ==
    \E r, q \in ids :
        /\ db[r].status \in {"failed", "permanently_failed"}
        /\ db[r].last_attempt_at > db[r].scheduled_at
        /\ db[q].status = "cancelled"
        /\ db[q].scheduled_at # NoTime

\* C29: process_outgoing_message and send_text_message never raise: for
\* every provider status other than an accepted 200, and for every
\* exception during the call, the caller gets the failure value False.
C29_DeliveryNeverRaises ==
    call.fn # "none" =>
        /\ ~call.raised
        /\ call.outcome # "200" => call.value = FALSE

\* a second call, made after an earlier one, that met a connection error
C29_Witness ==
    /\ call.n = 2
    /\ call.fn = "send_text_message"
    /\ call.outcome = "connection error"
    /\ ~call.raised /\ ~call.value

\* C30: with one scheduler instance a row is published at most once, also
\* over cycles in which the publish or a store commit failed: a published
\* row stays processing or sent and no later due query selects it.
C30_PublishedAtMostOnce ==
    \A r \in RowIds :
        /\ published[r] <= 1
        /\ published[r] = 1 =>
              /\ db[r].status \in {"processing", "sent"}
              /\ r \notin due[1]

\* a later poll cycle running while a row that was published, and whose
\* sent status a failed commit discarded, is still in processing
C30_Witness ==
    \E r \in ids :
        /\ faults > 0
        /\ published[r] = 1
        /\ db[r].status = "processing"
        /\ pc[1] = "loop"
        /\ pend[1].row = 0

\* C31: when a poll cycle ends, also one whose store commit failed and was
\* rolled back, no row is in processing: every row the cycle claimed is
\* persisted as sent, failed or permanently_failed.
C31_NoProcessingAfterCycle ==
    [][pc[1] # "sleep" /\ pc'[1] = "sleep"
          => \A r \in ids : db'[r].status # "processing"]_vars

\* C32: send_message never raises and returns True exactly when the message
\* was published; a call that fails returns False and leaves is_connected
\* False, and the call after a failed one goes through connect().
C32_SendMessageReturnsOutcome ==
    [][publish'.n = publish.n + 1 =>
          /\ ~publish'.raised
          /\ publish'.value <=> publish'.sent
          /\ ~publish'.value => ~isConnected'
          /\ publish.n > 0 /\ ~publish.value => publish'.reconnect]_vars

\* a call that follows a failed one, reconnects and publishes
C32_Witness ==
    /\ publish.afterFailure
    /\ publish.reconnect
    /\ publish.value /\ publish.sent
    /\ isConnected

\* C33: in every state the fields of a row agree with its status:
\* scheduled and cancelled rows have attempts 0 and no sent_at, a sent row
\* has sent_at and at least one attempt, a failed row has between 1 and
\* max_attempts - 1 attempts and an error_message, a permanently_failed row
\* has attempts = max_attempts.
C33_FieldsAgreeWithStatus ==
    \A r \in ids :
        LET row == db[r] IN
        /\ row.status = "scheduled" =>
               row.attempts = 0 /\ row.sent_at = NoTime
        /\ row.status = "sent" =>
               row.sent_at # NoTime /\ row.attempts >= 1
        /\ row.status = "permanently_failed" =>
               row.attempts = row.max_attempts
        /\ row.status = "failed" =>
               /\ 1 <= row.attempts /\ row.attempts < row.max_attempts
               /\ row.error_message # NoError
        /\ row.status = "cancelled" =>
               row.attempts = 0 /\ row.sent_at = NoTime

\* C34: every message published to 'outgoing_messages' is eventually handed
\* to the consumer callback and acked or nacked, also when the broker was
\* unreachable at startup and a later publish re-established the connection.
\* Checked for the behaviours in which the broker ends up reachable for
\* good.
C34_PublishedIsConsumed ==
    <>[]brokerUp =>
        \A k \in 1..MaxQueued :
            (subscription.sent >= k) ~> (subscription.handled >= k)

\* C35: in no one-minute window do more check_rate_limit calls return True
\* than the tenant's rate_limit_per_minute, also when calls of the same
\* tenant run concurrently; a call for an unknown tenant or one that met a
\* store error returned False.
C35_GrantsWithinLimit ==
    /\ \A w \in Times : rateLog.granted[w] <= RateLimitPerMinute
    /\ \A p \in Procs :
           rateLog.check[p].cause \in {"unknown tenant", "store error"}
              => ~rateLog.check[p].value

\* the scheduler task is over
TaskEnded == lifecycle.task \in {"returned", "cancelled"}

====
